---------------------------- MODULE Spec2Model ----------------------------
(***************************************************************************)
(* A model of the image registry's upload-session manager                  *)
(* (src/upload.go, UploadHandler) and of its on-disk blob store            *)
(* (src/registry/registry.go, StorageHandler).                             *)
(*                                                                         *)
(* Time is counted in ticks of the sweeper's ticker (one tick = one        *)
(* time.Minute, src/upload.go:80).  Upload ids are the integers            *)
(* 1..MaxIds in the order uuid.New() hands them out; BadId stands for a    *)
(* string uuid.Parse rejects.  A file is a sequence of blocks, a block     *)
(* being what one write(2) of io.Copy stores.  The temp directory is a     *)
(* map from file names to inodes, so that an open descriptor outlives the  *)
(* removal of its directory entry as it does on the POSIX file systems     *)
(* the program runs on.                                                    *)
(***************************************************************************)
EXTENDS Integers, Sequences, FiniteSets, TLC

\* ------------------------------------------------------------------ bounds
NumProcs == 2
MaxIds == 2
MaxTime == 1
MaxTTL == 1
MaxBlocks == 2
NumBlockValues == 2
MaxFileLen == 2

Procs == 1..NumProcs
Ids == 1..MaxIds
BadId == 0
\* a well-formed uuid that no Start of any run of the program returned
NoSuchId == MaxIds + 1
Blocks == 1..NumBlockValues
TTLs == 0..MaxTTL

RECURSIVE SeqsUpTo(_)
SeqsUpTo(n) ==
  IF n = 0 THEN {<< >>}
  ELSE LET S == SeqsUpTo(n - 1)
       IN S \cup {Append(s, b) : s \in {t \in S : Len(t) = n - 1}, b \in Blocks}

Bodies == SeqsUpTo(MaxBlocks)

\* ------------------------------------------------------------------- state
VARIABLES
  now,         \* time.Now(), in ticks
  active,      \* UploadHandler.active: id -> deadline
  tmpdir,      \* /tmp/uploads: file name -> inode
  inodes,      \* inode -> content (linked, or still open somewhere)
  nextId,      \* the next id uuid.New() returns
  proc,        \* the request tasks: position in Append / End, locals
  sent,        \* history: id -> blocks the client's successful Appends sent
  swept,       \* history: the ids a sweep removed as expired
  started,     \* history: the ids Start returned in this run of the process
  stored,      \* history: blob path -> the bytes it had when its PutBlob succeeded
  committed,   \* history: the ids for which an End call returned a handle
  gcpc,        \* the sweeper goroutine: "select", "scan", "done"
  listing,     \* clean()'s local `files`
  tickPending, \* a tick waits in ticker.C
  ctxDone,     \* ctx.Done() is closed
  storage,     \* /tmp/storage: path -> inode
  binodes,     \* inode of /tmp/storage -> content
  req,         \* the request a dispatcher run on its own is given
  resp,        \* what the handler of the last request did and answered
  registry     \* Registry.Start: where it is, the server, the shutdown goroutine

vars == << now, active, tmpdir, inodes, nextId, proc, sent, swept, started,
           stored, committed, gcpc, listing, tickPending, ctxDone, storage, binodes,
           req, resp, registry >>

\* the HTTP exchange
wire == << req, resp >>

\* Registry.Start has called ListenAndServeTLS; the goroutine that shuts the
\* server down waits for the context
Serving == [start |-> "serve", err |-> "", server |-> "listening", shutdown |-> "wait",
            result |-> ""]

\* what the specifications record about the past; no action reads it
hist == << sent, swept, started, stored >>

\* the state of the upload handler and of its directory
upload == << now, active, tmpdir, inodes, nextId, committed, gcpc, listing,
             tickPending, ctxDone >>

\* the state of the storage handler's directory
store == << storage, binodes >>

\* UploadHandler.Mutex: every critical section but clean() is one step; clean()
\* holds the lock from its first step to its second
locked == gcpc = "scan"

NoPath == << >>

Idle == [pc |-> "idle", id |-> BadId, data |-> << >>, n |-> 0, fd |-> 0, res |-> "",
         path |-> NoPath, hash |-> "", bfd |-> << >>]

\* ------------------------------------------------------------ file system
\* tmpFileForUpload: "<basedir>/<id>.tmp"
tmpFileForUpload(id) == << id, ".tmp" >>

\* idForUploadFile: the file name without its ".tmp" suffix
idForUploadFile(fname) ==
  IF Len(fname) = 2 /\ fname[2] = ".tmp" THEN fname[1] ELSE fname

OpenInodes(pr) == {pr[p].fd : p \in Procs} \ {0}

LiveInodes(dir, pr) == {dir[f] : f \in DOMAIN dir} \cup OpenInodes(pr)

\* an inode lives while a directory entry or an open descriptor refers to it
Reclaim(ino, dir, pr) == [i \in (DOMAIN ino) \cap LiveInodes(dir, pr) |-> ino[i]]

\* the inode of a new file: the id itself, or the next number of its own
\* sequence while an open descriptor still holds the inode of a removed file
FreshInode(id) ==
  LET mine == {id + k * NoSuchId : k \in 0..NumProcs}
  IN CHOOSE i \in mine : i \notin DOMAIN inodes /\ \A j \in mine : j < i => j \in DOMAIN inodes

\* an os.RemoveAll that leaves the files where they are
RemoveNone(dir, names) == dir

\* os.RemoveAll on a set of paths of the temp directory
RemoveAll(dir, names) == [f \in (DOMAIN dir) \ names |-> dir[f]]

FileExists(id) == tmpFileForUpload(id) \in DOMAIN tmpdir

FileContent(id) == inodes[tmpdir[tmpFileForUpload(id)]]

Drop(f, x) == [y \in (DOMAIN f) \ {x} |-> f[y]]

\* ------------------------------------------------------------ requests
\* A string that is cut at "/" or compared by prefix is a tuple whose first
\* element is its leading token: "blobs" is << "blobs" >>, a uuid is
\* << "uuid", n >>, a digest is << "sha256:", c >>, the empty string is << >>.
\* URL.Path is the sequence of its segments after the leading "/".
Lit(str) == << str >>

Uuid(n) == << "uuid", n >>

\* no request, no response yet
NoReq == [method |-> "", path |-> << >>, authorization |-> "", body |-> << >>,
          digest |-> << >>]

\* the response headers the handlers set, when none is set: no location, no
\* range, no content-length, no docker-content-digest
NoHeaders == [location |-> << >>, range |-> -1, length |-> -1, digest |-> << >>]

\* status and code of the JSON error body ("" without one), the headers, the
\* bytes of the body, the calls of the event handler and what the last of them
\* returned ("" when it was not called)
NoResp == [served |-> NoReq, op |-> "", status |-> 0, code |-> "",
           header |-> NoHeaders, data |-> << >>, events |-> << >>, sink |-> ""]

\* registry.ErrUnauthorized
ErrUnauthorized == [status |-> 401, code |-> "UNAUTHORIZED"]

\* registry.ErrUnknownBlob
ErrUnknownBlob == [status |-> 404, code |-> "BLOB_UNKNOWN"]

\* registry.ErrUnknownManifest
ErrUnknownManifest == [status |-> 404, code |-> "MANIFEST_UNKNOWN"]

\* registry.ErrUnsupported
ErrUnsupported == [status |-> 405, code |-> "UNSUPPORTED"]

\* registry.ErrInternal(err)
ErrInternal == [status |-> 500, code |-> "INTERNAL_SERVER_ERROR"]

\* strings.TrimSuffix(r.Request.URL.Path, "/")
TrimSlash(path) ==
  IF Len(path) > 0 /\ path[Len(path)] = << >>
  THEN SubSeq(path, 1, Len(path) - 1) ELSE path

\* strings.Contains(r.Request.URL.Path, "/" + words joined by "/" + "/")
ContainsSegments(path, words) ==
  \E k \in 1..Len(path) :
    /\ k + Len(words) <= Len(path)
    /\ \A j \in 1..Len(words) : path[k + j - 1] = Lit(words[j])

\* Request.IsPing
IsPing(r) == TrimSlash(r.path) = << Lit("v2") >>

\* Request.IsAuth
IsAuth(r) == TrimSlash(r.path) = << Lit("v2"), Lit("auth") >>

\* Request.IsBlob
IsBlob(r) == ContainsSegments(r.path, << "blobs" >>)

\* Request.IsBlobUploadRequest
IsBlobUploadRequest(r) ==
  LET turl == TrimSlash(r.path)
  IN /\ Len(turl) >= 2
     /\ turl[Len(turl) - 1] = Lit("blobs")
     /\ turl[Len(turl)] = Lit("uploads")

\* Request.HasBlobUploadID
HasBlobUploadID(r) == ContainsSegments(r.path, << "blobs", "upload", "id" >>)

\* Request.IsManifest
IsManifest(r) == ContainsSegments(r.path, << "manifests" >>)

\* Request.last: the last component of the path
last(r) == IF Len(r.path) = 0 THEN << >> ELSE r.path[Len(r.path)]

\* Request.RepositoryAndImage: parts[2] and parts[3] of the path split at "/"
RepositoryAndImage(r) ==
  IF Len(r.path) < 3 THEN [err |-> "unable to extract url repository and image"]
  ELSE [err |-> "nil", repo |-> r.path[2][1], image |-> r.path[3][1]]

\* uuid.Parse in isValid: a segment that is no uuid is an invalid upload id
ParseUuid(str) == IF Len(str) = 2 /\ str[1] = "uuid" THEN str[2] ELSE BadId

\* strings.HasPrefix(manid, "sha256:")
HasSha256Prefix(str) == Len(str) > 0 /\ str[1] = "sha256:"

\* Authorizer.Authorize of the program: the bearer token must be "token123"
Authorize(r) == IF r.authorization = "Bearer token123" THEN "nil" ELSE "UNAUTHORIZED"

\* Authorizer.Authenticate of the program: basic credentials user / 123
Authenticate(r) == IF r.authorization = "Basic user:123" THEN "nil" ELSE "UNAUTHORIZED"

\* a blob dispatch that looks for the upload id before it looks at the method
BlobOpUploadFirst(r) ==
  IF HasBlobUploadID(r) THEN "UploadBlob"
  ELSE IF IsBlobUploadRequest(r) THEN "StartBlobUpload"
  ELSE IF r.method = "HEAD" THEN "Stat"
  ELSE IF r.method = "GET" THEN "Get"
  ELSE "unsupported"

\* Registry.redirectToAuth: 200 to a valid token, else 401 with the
\* www-authenticate header and no body
redirectToAuth(r) ==
  IF Authorize(r) = "nil" THEN [status |-> 200, code |-> ""]
  ELSE [status |-> 401, code |-> ""]

\* Registry.authenticate: the token, or the error of the Authorizer
authenticate(r) ==
  IF Authenticate(r) = "nil" THEN [status |-> 200, code |-> ""] ELSE ErrUnauthorized

\* BlobHandler.ServeHTTP: the handler of a blob request
BlobOp(r) ==
  IF r.method = "HEAD" THEN "Stat"
  ELSE IF r.method = "GET" THEN "Get"
  ELSE IF HasBlobUploadID(r) THEN "UploadBlob"
  ELSE IF IsBlobUploadRequest(r) THEN "StartBlobUpload"
  ELSE "unsupported"

\* ManifestHandler.ServeHTTP: the handler of a manifest request
ManifestOp(r) ==
  IF r.method = "GET" THEN "GetManifest"
  ELSE IF r.method = "PUT" THEN "StoreManifest"
  ELSE "unsupported"

\* a dispatcher that authorizes only what is no blob request
HandlerBlobsOpen(r) ==
  IF IsPing(r) THEN "redirectToAuth"
  ELSE IF IsAuth(r) THEN "authenticate"
  ELSE IF IsBlob(r) THEN "blobhdr"
  ELSE IF Authorize(r) # "nil" THEN "unauthorized"
  ELSE IF IsManifest(r) THEN "manfhdr"
  ELSE "unsupported"

\* Registry.ServeHTTP: who answers a request
Handler(r) ==
  IF IsPing(r) THEN "redirectToAuth"
  ELSE IF IsAuth(r) THEN "authenticate"
  ELSE IF Authorize(r) # "nil" THEN "unauthorized"
  ELSE IF IsBlob(r) THEN "blobhdr"
  ELSE IF IsManifest(r) THEN "manfhdr"
  ELSE "unsupported"

\* Registry.ServeHTTP and the handler it calls: the operation a request runs
Classify(r) ==
  IF Handler(r) = "blobhdr" THEN BlobOp(r)
  ELSE IF Handler(r) = "manfhdr" THEN ManifestOp(r)
  ELSE Handler(r)

\* ---------------------------------------------------------------- Init
Init ==
  /\ now = 0
  /\ active = << >>
  /\ tmpdir = << >>
  /\ inodes = << >>
  /\ nextId = 1
  /\ proc = [p \in Procs |-> Idle]
  /\ sent = [i \in Ids |-> << >>]
  /\ swept = {}
  /\ started = {}
  /\ stored = << >>
  /\ committed = {}
  /\ gcpc = "select"
  /\ listing = {}
  /\ tickPending = FALSE
  /\ ctxDone = FALSE
  /\ storage = << >>
  /\ binodes = << >>
  /\ req = NoReq
  /\ resp = NoResp
  /\ registry = Serving

\* the ids a client can put in a request: ids some Start returned (in this run of
\* the process or in an earlier one), a uuid nobody was given, a malformed string
ReqIds == (1..(nextId - 1)) \cup {NoSuchId, BadId}

\* ------------------------------------------------------- UploadHandler
\* isValid: "nil", or the error text of the invalid-upload condition
isValid(id) ==
  IF id = BadId THEN "invalid upload id"
  ELSE IF id \notin DOMAIN active THEN "unknown upload id"
  ELSE IF now > active[id] THEN "upload id expired"
  ELSE "nil"

\* isValid takes the lock only after uuid.Parse has accepted the id
CanValidate(id) == id = BadId \/ ~locked

\* the length the file of id has once the Appends under way have written
Pending(id) ==
  LET W == {q \in Procs : proc[q].pc \in {"open", "copy"} /\ proc[q].id = id}
      RECURSIVE Sum(_)
      Sum(S) == IF S = {} THEN 0
                ELSE LET q == CHOOSE x \in S : TRUE
                     IN (Len(proc[q].data) - proc[q].n) + Sum(S \ {q})
  IN (IF FileExists(id) THEN Len(FileContent(id)) ELSE 0) + Sum(W)

\* Start: a fresh id whose deadline is time.Now().Add(deadline)
Start(ttl) ==
  /\ ~locked
  /\ nextId <= MaxIds
  /\ active' = (nextId :> (now + ttl)) @@ active
  /\ nextId' = nextId + 1
  /\ UNCHANGED << now, tmpdir, inodes, proc, committed, gcpc, listing,
                  tickPending, ctxDone, store >>

DeleteKeepsFile(id) ==
  /\ ~locked
  /\ tmpdir' = tmpdir
  /\ inodes' = inodes
  /\ active' = Drop(active, id)
  /\ UNCHANGED << now, nextId, proc, committed, gcpc, listing,
                  tickPending, ctxDone, store >>

\* Delete: remove the temp file, then the id, under the lock
Delete(id) ==
  /\ ~locked
  /\ tmpdir' = RemoveAll(tmpdir, {tmpFileForUpload(id)})
  /\ inodes' = Reclaim(inodes, tmpdir', proc)
  /\ active' = Drop(active, id)
  /\ UNCHANGED << now, nextId, proc, committed, gcpc, listing,
                  tickPending, ctxDone, store >>

\* an Append that renews the deadline of the session it writes to
AppendValidateRenews(p, id, data) ==
  /\ proc[p].pc = "idle"
  /\ CanValidate(id)
  /\ Pending(id) + Len(data) <= MaxFileLen
  /\ proc' = [proc EXCEPT ![p] =
        IF isValid(id) = "nil"
        THEN [Idle EXCEPT !.pc = "open", !.id = id, !.data = data]
        ELSE [Idle EXCEPT !.pc = "done", !.id = id, !.res = "invalid"]]
  /\ active' = IF isValid(id) = "nil" THEN [active EXCEPT ![id] = now + MaxTTL + 1]
               ELSE active
  /\ UNCHANGED << now, tmpdir, inodes, nextId, committed, gcpc,
                  listing, tickPending, ctxDone, store >>

\* Append, line 148: isValid(id)
AppendValidate(p, id, data) ==
  /\ proc[p].pc = "idle"
  /\ CanValidate(id)
  /\ Pending(id) + Len(data) <= MaxFileLen
  /\ proc' = [proc EXCEPT ![p] =
        IF isValid(id) = "nil"
        THEN [Idle EXCEPT !.pc = "open", !.id = id, !.data = data]
        ELSE [Idle EXCEPT !.pc = "done", !.id = id, !.res = "invalid"]]
  /\ UNCHANGED << now, active, tmpdir, inodes, nextId, committed, gcpc,
                  listing, tickPending, ctxDone, store >>

\* what Append leaves when io.Copy has returned: fp closed, `written` returned
AppendReturn(p, pr, ino, dir) ==
  LET done == [pr EXCEPT ![p].pc = "done", ![p].res = "ok", ![p].fd = 0,
                         ![p].data = << >>]
  IN /\ proc' = done
     /\ inodes' = Reclaim(ino, dir, done)

\* Append, line 153: os.OpenFile(fpath, O_CREATE|O_RDWR|O_APPEND)
AppendOpen(p) ==
  /\ proc[p].pc = "open"
  /\ LET f == tmpFileForUpload(proc[p].id)
         i == IF f \in DOMAIN tmpdir THEN tmpdir[f] ELSE FreshInode(proc[p].id)
         ino == IF f \in DOMAIN tmpdir THEN inodes ELSE (i :> << >>) @@ inodes
         opened == [proc EXCEPT ![p].fd = i, ![p].pc = "copy"]
     IN /\ tmpdir' = (f :> i) @@ tmpdir
        /\ IF proc[p].data = << >>
           THEN AppendReturn(p, opened, ino, tmpdir')
           ELSE /\ proc' = opened
                /\ inodes' = ino
  /\ UNCHANGED << now, active, nextId, committed, gcpc, listing, tickPending,
                  ctxDone, store >>

WriteAtStart(content, block) ==
  IF content = << >> THEN << block >> ELSE [content EXCEPT ![1] = block]

\* a write to a file opened with O_APPEND (line 153) lands at the end of the file
WriteAtEnd(content, block) == Append(content, block)

\* Append, line 159: io.Copy, one write per block
AppendCopy(p) ==
  /\ proc[p].pc = "copy"
  /\ LET k == proc[p].n + 1
         ino == [inodes EXCEPT ![proc[p].fd] = WriteAtEnd(@, proc[p].data[k])]
         wrote == [proc EXCEPT ![p].n = k]
     IN IF k = Len(proc[p].data)
        THEN AppendReturn(p, wrote, ino, tmpdir)
        ELSE /\ proc' = wrote
             /\ inodes' = ino
  /\ UNCHANGED << now, active, tmpdir, nextId, committed, gcpc, listing,
                  tickPending, ctxDone, store >>

\* End, line 170: isValid(id)
EndValidate(p, id) ==
  /\ proc[p].pc = "idle"
  /\ CanValidate(id)
  /\ proc' = [proc EXCEPT ![p] =
        IF isValid(id) = "nil"
        THEN [Idle EXCEPT !.pc = "eopen", !.id = id]
        ELSE [Idle EXCEPT !.pc = "done", !.id = id, !.res = "invalid"]]
  /\ UNCHANGED << now, active, tmpdir, inodes, nextId, committed, gcpc,
                  listing, tickPending, ctxDone, store >>

\* an End that takes the id out of the active set before it opens the file
EndOpenAfterDelete(p) ==
  /\ proc[p].pc = "eopen"
  /\ active' = Drop(active, proc[p].id)
  /\ LET f == tmpFileForUpload(proc[p].id)
     IN proc' = [proc EXCEPT ![p] =
          IF f \in DOMAIN tmpdir
          THEN [@ EXCEPT !.pc = "edel", !.fd = tmpdir[f]]
          ELSE [@ EXCEPT !.pc = "done", !.res = "noent"]]
  /\ UNCHANGED << now, tmpdir, inodes, nextId, committed, gcpc,
                  listing, tickPending, ctxDone, store >>

\* End, line 175: os.Open(fpath)
EndOpen(p) ==
  /\ proc[p].pc = "eopen"
  /\ LET f == tmpFileForUpload(proc[p].id)
     IN proc' = [proc EXCEPT ![p] =
          IF f \in DOMAIN tmpdir
          THEN [@ EXCEPT !.pc = "edel", !.fd = tmpdir[f]]
          ELSE [@ EXCEPT !.pc = "done", !.res = "noent"]]
  /\ UNCHANGED << now, active, tmpdir, inodes, nextId, committed, gcpc,
                  listing, tickPending, ctxDone, store >>

\* End, lines 180-184: delete(u.active, id) under the lock, return the handle
EndDelete(p) ==
  /\ proc[p].pc = "edel"
  /\ ~locked
  /\ active' = Drop(active, proc[p].id)
  /\ proc' = [proc EXCEPT ![p].pc = "handle", ![p].res = "ok"]
  /\ committed' = committed \cup {proc[p].id}
  /\ UNCHANGED << now, tmpdir, inodes, nextId, gcpc, listing,
                  tickPending, ctxDone, store >>

\* what a read of the handle End returned yields
ReadHandle(p) == inodes[proc[p].fd]

\* tmpFileWrapper.Close: close the file, then os.RemoveAll(t.File.Name())
HandleClose(p) ==
  /\ proc[p].pc = "handle"
  /\ tmpdir' = RemoveAll(tmpdir, {tmpFileForUpload(proc[p].id)})
  /\ proc' = [proc EXCEPT ![p] = Idle]
  /\ inodes' = Reclaim(inodes, tmpdir', proc')
  /\ UNCHANGED << now, active, nextId, committed, gcpc, listing,
                  tickPending, ctxDone, store >>

\* the caller has its error or its byte count
Return(p) ==
  /\ proc[p].pc = "done"
  /\ proc' = [proc EXCEPT ![p] = Idle]
  /\ UNCHANGED << now, active, tmpdir, inodes, nextId, committed, gcpc,
                  listing, tickPending, ctxDone, store >>

\* ------------------------------------------------------------- sweeper
\* a sweep that takes every id for expired
ExpiredAlways(id) == TRUE

\* clean, line 45: `deadline.After(time.Now())` keeps the id
Expired(id) == ~(active[id] > now)

AfterCleanLoops == "select"

\* gc, lines 80-87: what follows the one select statement
AfterClean == "done"

\* gc, line 82: the select statement takes ctx.Done()
GcCancelled ==
  /\ gcpc = "select"
  /\ ctxDone
  /\ gcpc' = "done"
  /\ UNCHANGED << now, active, tmpdir, inodes, nextId, proc, committed,
                  listing, tickPending, ctxDone, store >>

\* gc, line 84, and clean, lines 41-60: the select statement takes the tick;
\* the expired ids and their files go; os.ReadDir lists the directory or fails
GcCleanExpired ==
  /\ gcpc = "select"
  /\ tickPending
  /\ ~locked
  /\ tickPending' = FALSE
  /\ LET gone == {id \in DOMAIN active : Expired(id)}
         dir == RemoveAll(tmpdir, {tmpFileForUpload(id) : id \in gone})
     IN /\ active' = [id \in (DOMAIN active) \ gone |-> active[id]]
        /\ tmpdir' = dir
        /\ inodes' = Reclaim(inodes, dir, proc)
        /\ \E listed \in BOOLEAN :
             IF listed
             THEN /\ listing' = DOMAIN dir
                  /\ gcpc' = "scan"
             ELSE /\ listing' = {}
                  /\ gcpc' = AfterClean
  /\ UNCHANGED << now, nextId, proc, committed, ctxDone, store >>

\* clean, lines 62-72: the listed files whose id is not active go; unlock
GcCleanOrphans ==
  /\ gcpc = "scan"
  /\ tmpdir' = RemoveAll(tmpdir,
                  {f \in listing : idForUploadFile(f) \notin DOMAIN active})
  /\ inodes' = Reclaim(inodes, tmpdir', proc)
  /\ listing' = {}
  /\ gcpc' = AfterClean
  /\ UNCHANGED << now, active, nextId, proc, committed, tickPending, ctxDone, store >>

\* ---------------------------------------------------------- environment
\* a minute passes: the ticker sends on ticker.C (a channel of capacity 1)
Tick ==
  /\ now < MaxTime
  /\ now' = now + 1
  /\ tickPending' = TRUE
  /\ UNCHANGED << active, tmpdir, inodes, nextId, proc, committed, gcpc,
                  listing, ctxDone, store >>

\* SIGTERM or SIGINT: main's context is cancelled
Signal ==
  /\ ~ctxDone
  /\ ctxDone' = TRUE
  /\ UNCHANGED << now, active, tmpdir, inodes, nextId, proc, committed,
                  gcpc, listing, tickPending, store >>

\* ------------------------------------------------------ StorageHandler
Repos == {"acme"}
Images == {"app"}

\* fmt.Sprintf("sha256:%x", hasher.Sum(nil)): one digest per content
Sha256(c) == << "sha256:", c >>

\* the digests the clients assert
Hashes == {Sha256(<< b >>) : b \in Blocks}

\* a hash string "../<image>/<hash>"
Traversal(image, hash) == << "../", image, hash >>

\* "<basedir>/<repo>/<image>/<hash>", as the file system resolves it: the string
\* is not cleaned, so a hash "../<other>/<hash>" names a file of <repo>/<other>
BlobPath(repo, image, hash) ==
  IF Len(hash) = 3 /\ hash[1] = "../"
  THEN << repo, hash[2], hash[3] >>
  ELSE << repo, image, hash >>

BlobPaths == {BlobPath(r, i, h) : r \in Repos, i \in Images, h \in Hashes}

OpenBlobInodes(pr) == {pr[p].bfd : p \in Procs} \ {<< >>}

\* an inode lives while a directory entry or an open descriptor refers to it
ReclaimBlobs(ino, dir, pr) ==
  [i \in (DOMAIN ino) \cap ({dir[f] : f \in DOMAIN dir} \cup OpenBlobInodes(pr)) |-> ino[i]]

FreshBlobInode(path) ==
  LET mine == {<< path, k >> : k \in 0..NumProcs}
  IN CHOOSE i \in mine :
       i \notin DOMAIN binodes /\ \A j \in mine : j[2] < i[2] => j \in DOMAIN binodes

\* file.Write at offset n of a file opened without O_APPEND and without O_TRUNC
WriteAt(content, n, block) ==
  IF n < Len(content) THEN [content EXCEPT ![n + 1] = block] ELSE Append(content, block)

\* GetBlob: os.Open, then Stat for the size
GetBlob(repo, image, hash) ==
  LET path == BlobPath(repo, image, hash)
  IN IF path \in DOMAIN storage
     THEN [err |-> "nil", msg |-> "", data |-> binodes[storage[path]],
           size |-> Len(binodes[storage[path]])]
     ELSE [err |-> "not exist", msg |-> "unable to open blob file", data |-> << >>,
           size |-> 0]

\* StatBlob: os.Stat
StatBlob(repo, image, hash) ==
  LET path == BlobPath(repo, image, hash)
  IN IF path \in DOMAIN storage
     THEN [err |-> "nil", size |-> Len(binodes[storage[path]])]
     ELSE [err |-> "not exist", size |-> 0]

\* ------------------------------------------------------------------ tags
Tags == {"latest"}

\* a digest string of another algorithm: more hexadecimal digits than a sha256 one
Sha512(c) == << "sha512:", c, c >>

\* the strings PutTag is given as the hash of the manifest
TagValues == Hashes \cup {Sha512(<< b >>) : b \in Blocks}

\* "<basedir>/<repo>/<image>/tags/<tag>"
TagPath(repo, image, tag) == << repo, image, "tags", tag >>

\* a WriteString to a file opened with O_APPEND
WriteStringAtEnd(content, str) == content \o str

\* manfp.WriteString at offset 0 of a file opened without O_TRUNC
WriteString(content, str) == str \o SubSeq(content, Len(str) + 1, Len(content))

\* a PutTag that writes nothing
PutTagToNowhere(dir, ino, repo, image, tag, hash) == [storage |-> dir, binodes |-> ino]

\* PutTag: os.MkdirAll, os.OpenFile(tagpath, O_CREATE|O_RDWR), WriteString(hash)
PutTagTo(dir, ino, repo, image, tag, hash) ==
  LET path == TagPath(repo, image, tag)
      i == IF path \in DOMAIN dir THEN dir[path] ELSE FreshBlobInode(path)
      old == IF path \in DOMAIN dir THEN ino[i] ELSE << >>
  IN [storage |-> (path :> i) @@ dir,
      binodes |-> (i :> WriteString(old, hash)) @@ ino]

\* PutTag called on its own
PutTag(repo, image, tag, hash) ==
  /\ LET put == PutTagTo(storage, binodes, repo, image, tag, hash)
     IN /\ storage' = put.storage
        /\ binodes' = put.binodes
  /\ UNCHANGED << upload, proc >>

\* os.ReadFile(tagpath): what the tag file holds
TagValue(repo, image, tag) == binodes[storage[TagPath(repo, image, tag)]]

\* a GetTag that tells a tag whose blob is missing from a missing tag
GetTagDangling(repo, image, tag) ==
  IF TagPath(repo, image, tag) \notin DOMAIN storage
  THEN [err |-> "not exist", msg |-> "unable to read tag file", data |-> << >>, size |-> 0]
  ELSE IF BlobPath(repo, image, binodes[storage[TagPath(repo, image, tag)]])
            \notin DOMAIN storage
  THEN [err |-> "dangling tag", msg |-> "unable to open blob file", data |-> << >>,
        size |-> 0]
  ELSE GetBlob(repo, image, binodes[storage[TagPath(repo, image, tag)]])

\* GetTag: os.ReadFile(tagpath), then GetBlob of the string read
GetTag(repo, image, tag) ==
  IF TagPath(repo, image, tag) \in DOMAIN storage
  THEN GetBlob(repo, image, TagValue(repo, image, tag))
  ELSE [err |-> "not exist", msg |-> "unable to read tag file", data |-> << >>, size |-> 0]

\* PutBlob, lines 172-182: os.MkdirAll, os.OpenFile(blobpath, O_CREATE|O_RDWR)
PutOpen(p, repo, image, hash, from) ==
  /\ proc[p].pc = "idle"
  /\ LET path == BlobPath(repo, image, hash)
         i == IF path \in DOMAIN storage THEN storage[path] ELSE FreshBlobInode(path)
     IN /\ storage' = (path :> i) @@ storage
        /\ binodes' = IF path \in DOMAIN storage THEN binodes ELSE (i :> << >>) @@ binodes
        /\ proc' = [proc EXCEPT ![p] =
             [Idle EXCEPT !.pc = "pcopy", !.path = path, !.hash = hash, !.data = from,
                          !.bfd = i]]
  /\ UNCHANGED upload

\* PutBlob, lines 184-189: io.Copy to the file and the hasher, one write per block
PutCopy(p) ==
  /\ proc[p].pc = "pcopy"
  /\ proc[p].n < Len(proc[p].data)
  /\ binodes' = [binodes EXCEPT ![proc[p].bfd] =
                   WriteAt(@, proc[p].n, proc[p].data[proc[p].n + 1])]
  /\ proc' = [proc EXCEPT ![p].n = @ + 1]
  /\ UNCHANGED << upload, storage >>

\* a PutBlob that does not compare the digests
HashMatchesAlways(hash, copied) == TRUE

\* PutBlob, line 192: the digest of what was copied against the asserted one
HashMatches(hash, copied) == hash = Sha256(copied)

RemoveBlobKept(dir, path) == dir

\* PutBlob, line 193: os.RemoveAll(blobpath)
RemoveBlob(dir, path) == [f \in (DOMAIN dir) \ {path} |-> dir[f]]

\* PutBlob, lines 191-196: on a mismatch os.RemoveAll(blobpath); the file is closed
PutVerify(p) ==
  /\ proc[p].pc = "pcopy"
  /\ proc[p].n = Len(proc[p].data)
  /\ LET ok == HashMatches(proc[p].hash, proc[p].data)
         done == [proc EXCEPT ![p].pc = "pdone", ![p].bfd = << >>,
                              ![p].res = IF ok THEN "ok" ELSE "blob hash mismatch"]
     IN /\ storage' = IF ok THEN storage ELSE RemoveBlob(storage, proc[p].path)
        /\ binodes' = ReclaimBlobs(binodes, storage', done)
        /\ proc' = done
  /\ UNCHANGED upload

\* the caller has PutBlob's error
PutReturn(p) ==
  /\ proc[p].pc = "pdone"
  /\ proc' = [proc EXCEPT ![p] = Idle]
  /\ UNCHANGED << upload, store >>

\* ------------------------------------------------------------ process
\* The process ends and the program is run again.  After the stop signal
\* Registry.Start waits for the sweeper (wg.Wait) and gives the requests under
\* way ten seconds (server.Shutdown); then main returns and the requests still
\* running die with the process.  What they had written stays on disk; the next
\* run starts from an empty map (NewUploadHandler) and a new sweeper.
Restart ==
  /\ ctxDone
  /\ gcpc = "done"
  /\ proc' = [p \in Procs |-> Idle]
  /\ active' = << >>
  /\ inodes' = Reclaim(inodes, tmpdir, proc')
  /\ binodes' = ReclaimBlobs(binodes, storage, proc')
  /\ gcpc' = "select"
  /\ tickPending' = FALSE
  /\ ctxDone' = FALSE
  /\ UNCHANGED << now, tmpdir, nextId, committed, listing, storage >>

\* ------------------------------------------------------ Registry.Start
\* Start, lines 110-116: the goroutine that waited for ctx.Done() calls
\* server.Shutdown, which closes the listeners at once
ShutdownBegins ==
  /\ registry.shutdown = "wait"
  /\ ctxDone
  /\ registry' = [registry EXCEPT !.shutdown = "drain",
                     !.server = IF @ = "listening" THEN "closed" ELSE @]
  /\ UNCHANGED << upload, store, proc, wire >>

\* server.Shutdown returns: the connections are idle or the ten seconds are over
ShutdownEnds ==
  /\ registry.shutdown = "drain"
  /\ registry' = [registry EXCEPT !.shutdown = "done"]
  /\ UNCHANGED << upload, store, proc, wire >>

\* Start, line 123: ListenAndServeTLS returns an error of its own (no
\* certificate, the port is taken, Accept fails)
ListenFails ==
  /\ registry.start = "serve"
  /\ registry.server = "listening"
  /\ registry' = [registry EXCEPT !.start = "wait", !.err = "error", !.server = "failed"]
  /\ UNCHANGED << upload, store, proc, wire >>

\* Start, line 123: ListenAndServeTLS returns http.ErrServerClosed
ServeReturnsClosed ==
  /\ registry.start = "serve"
  /\ registry.server = "closed"
  /\ registry' = [registry EXCEPT !.start = "wait", !.err = "ErrServerClosed"]
  /\ UNCHANGED << upload, store, proc, wire >>

\* a Start that returns without waiting for the sweeper
WaitSkipped ==
  /\ registry.start = "wait"
  /\ registry' = [registry EXCEPT !.start = "returned",
                     !.result = IF registry.err = "ErrServerClosed" THEN "nil" ELSE "error"]
  /\ UNCHANGED << upload, store, proc, wire >>

\* Start, lines 124-128: wg.Wait() returns once gc has called wg.Done(); nil
\* for http.ErrServerClosed, else the error
WaitReturns ==
  /\ registry.start = "wait"
  /\ gcpc = "done"
  /\ registry' = [registry EXCEPT !.start = "returned",
                     !.result = IF registry.err = "ErrServerClosed" THEN "nil" ELSE "error"]
  /\ UNCHANGED << upload, store, proc, wire >>

\* ------------------------------------------------- whole calls, in order
\* an io.Copy that puts what it writes in front of what the file holds
CopyInFront(content, data) == data \o content

\* io.Copy to a file opened with O_APPEND: one write per block
RECURSIVE CopyAppend(_, _)
CopyAppend(content, data) ==
  IF data = << >> THEN content
  ELSE CopyAppend(WriteAtEnd(content, Head(data)), Tail(data))

\* io.Copy to a file opened without O_APPEND, from offset n: one write per block
RECURSIVE CopyAt(_, _, _)
CopyAt(content, n, data) ==
  IF data = << >> THEN content
  ELSE CopyAt(WriteAt(content, n, Head(data)), n + 1, Tail(data))

\* Append of a valid id, from os.OpenFile to the return of `written`
AppendTo(dir, ino, id, data) ==
  LET f == tmpFileForUpload(id)
      i == IF f \in DOMAIN dir THEN dir[f] ELSE FreshInode(id)
      old == IF f \in DOMAIN dir THEN ino[i] ELSE << >>
  IN [tmpdir |-> (f :> i) @@ dir,
      inodes |-> (i :> CopyAppend(old, data)) @@ ino,
      written |-> Len(data)]

\* PutBlob from its first line to its return, nothing else running
PutBlobTo(dir, ino, repo, image, hash, from) ==
  LET path == BlobPath(repo, image, hash)
      i == IF path \in DOMAIN dir THEN dir[path] ELSE FreshBlobInode(path)
      old == IF path \in DOMAIN dir THEN ino[i] ELSE << >>
      ok == HashMatches(hash, from)
      opened == (path :> i) @@ dir
      left == IF ok THEN opened ELSE RemoveBlob(opened, path)
  IN [err |-> IF ok THEN "nil" ELSE "blob hash mismatch",
      storage |-> left,
      binodes |-> ReclaimBlobs((i :> CopyAt(old, 0, from)) @@ ino, left, proc)]

\* ------------------------------------------------------------- handlers
\* a response with a status, the code of its JSON error body and no header of
\* a handler
Reply(r, status, code) ==
  [served |-> r, op |-> Classify(r), status |-> status, code |-> code,
   header |-> NoHeaders, data |-> << >>, events |-> << >>, sink |-> ""]

\* Error.Write: WriteHeader(Status), then the JSON body with Code
ReplyErr(r, err) == Reply(r, err.status, err.code)

\* what the dispatcher itself answers, before or instead of a handler
Answer(r) ==
  LET op == Classify(r)
      err == IF op = "unauthorized" THEN ErrUnauthorized
             ELSE IF op = "unsupported" THEN ErrUnsupported
             ELSE IF op = "redirectToAuth" THEN redirectToAuth(r)
             ELSE IF op = "authenticate" THEN authenticate(r)
             ELSE [status |-> 0, code |-> ""]
  IN ReplyErr(r, err)

\* BlobHandler.StartBlobUpload: b.upload.Start(20 * time.Minute)
UploadTTL == 20

\* fmt.Sprintf("/v2/%s/%s/blobs/upload/id/%s", repo, img, id)
UploadLocation(repo, img, id) ==
  << Lit("v2"), Lit(repo), Lit(img), Lit("blobs"), Lit("upload"), Lit("id"), id >>

\* strings.TrimPrefix(hash, "sha256:")
TrimSha256(hash) == IF HasSha256Prefix(hash) THEN Tail(hash) ELSE hash

\* BlobHandler.Stat
Stat(r) ==
  LET ri == RepositoryAndImage(r)
  IN /\ resp' = IF ri.err # "nil" THEN ReplyErr(r, ErrInternal)
                ELSE IF StatBlob(ri.repo, ri.image, last(r)).err = "not exist"
                     THEN ReplyErr(r, ErrUnknownBlob)
                ELSE [Reply(r, 200, "") EXCEPT
                        !.header.length = StatBlob(ri.repo, ri.image, last(r)).size,
                        !.header.digest = TrimSha256(last(r))]
     /\ UNCHANGED << upload, store, proc >>

\* BlobHandler.Get
Get(r) ==
  LET ri == RepositoryAndImage(r)
  IN /\ resp' = IF ri.err # "nil" THEN ReplyErr(r, ErrInternal)
                ELSE IF GetBlob(ri.repo, ri.image, last(r)).err = "not exist"
                     THEN ReplyErr(r, ErrUnknownBlob)
                ELSE [Reply(r, 200, "") EXCEPT
                        !.header.length = GetBlob(ri.repo, ri.image, last(r)).size,
                        !.data = GetBlob(ri.repo, ri.image, last(r)).data]
     /\ UNCHANGED << upload, store, proc >>

\* BlobHandler.StartBlobUpload
StartBlobUpload(r) ==
  IF RepositoryAndImage(r).err # "nil"
  THEN /\ resp' = ReplyErr(r, ErrInternal)
       /\ UNCHANGED << upload, store, proc >>
  ELSE /\ Start(UploadTTL)
       /\ resp' = [Reply(r, 202, "") EXCEPT
                     !.header.location =
                        UploadLocation(RepositoryAndImage(r).repo,
                                       RepositoryAndImage(r).image, Uuid(nextId)),
                     !.header.range = 0]

\* BlobHandler.UploadBlob, lines 126-165: Append, then for a request that is no
\* PATCH End, the deferred Close of the handle, and PutBlob
AppendAndCommit(r, id, ri) ==
  LET f == tmpFileForUpload(id)
      a == AppendTo(tmpdir, inodes, id, r.body)
      content == a.inodes[a.tmpdir[f]]
      put == PutBlobTo(storage, binodes, ri.repo, ri.image, r.digest, content)
      \* lines 133-135: set once Append has returned, whatever is answered later
      Sent(status, code) ==
        [Reply(r, status, code) EXCEPT
           !.header.location = UploadLocation(ri.repo, ri.image, last(r)),
           !.header.range = a.written]
  IN IF isValid(id) # "nil"
     THEN /\ resp' = ReplyErr(r, ErrInternal)
          /\ UNCHANGED << upload, store, proc >>
     ELSE IF r.method = "PATCH"
     THEN /\ tmpdir' = a.tmpdir
          /\ inodes' = a.inodes
          /\ resp' = Sent(204, "")
          /\ UNCHANGED << now, active, nextId, committed, gcpc, listing,
                          tickPending, ctxDone, store, proc >>
     ELSE /\ active' = Drop(active, id)
          /\ committed' = committed \cup {id}
          /\ tmpdir' = RemoveAll(a.tmpdir, {f})
          /\ inodes' = Reclaim(a.inodes, tmpdir', proc)
          /\ IF r.digest = << >>
             THEN /\ resp' = Sent(ErrInternal.status, ErrInternal.code)
                  /\ UNCHANGED store
             ELSE /\ storage' = put.storage
                  /\ binodes' = put.binodes
                  /\ resp' = IF put.err # "nil"
                             THEN Sent(ErrInternal.status, ErrInternal.code)
                             ELSE Sent(201, "")
          /\ UNCHANGED << now, nextId, gcpc, listing, tickPending, ctxDone, proc >>

\* BlobHandler.UploadBlob
UploadBlob(r) ==
  LET id == ParseUuid(last(r))
      ri == RepositoryAndImage(r)
  IN IF last(r) = << >> \/ ri.err # "nil"
     THEN /\ resp' = ReplyErr(r, ErrInternal)
          /\ UNCHANGED << upload, store, proc >>
     ELSE IF r.method = "DELETE"
     THEN /\ Delete(id)
          /\ resp' = Reply(r, 200, "")
     ELSE AppendAndCommit(r, id, ri)

\* EventHandler.NewTag: what the event handler is called with
NewTag(repo, image, tag) == << repo, image, tag >>

\* what an EventHandler returns: nil, as the one of main does, or an error
NewTagResults == {"nil", "error"}

\* ManifestHandler.StoreManifest; the event handler is the caller's
StoreManifest(r) ==
  LET manid == last(r)
      ri == RepositoryAndImage(r)
      hash == Sha256(r.body)
      put == PutBlobTo(storage, binodes, ri.repo, ri.image, hash, r.body)
      tag == PutTagTo(put.storage, put.binodes, ri.repo, ri.image, manid[1], hash)
  IN IF ri.err # "nil"
     THEN /\ resp' = ReplyErr(r, ErrInternal)
          /\ UNCHANGED << upload, store, proc >>
     ELSE IF put.err # "nil"
     THEN /\ storage' = put.storage
          /\ binodes' = put.binodes
          /\ resp' = ReplyErr(r, ErrInternal)
          /\ UNCHANGED << upload, proc >>
     ELSE IF HasSha256Prefix(manid)
     THEN /\ storage' = put.storage
          /\ binodes' = put.binodes
          /\ resp' = Reply(r, 201, "")
          /\ UNCHANGED << upload, proc >>
     ELSE /\ storage' = tag.storage
          /\ binodes' = tag.binodes
          /\ \E err \in NewTagResults :
               resp' = IF err # "nil"
                       THEN [ReplyErr(r, ErrInternal) EXCEPT
                               !.events = << NewTag(ri.repo, ri.image, manid[1]) >>,
                               !.sink = err]
                       ELSE [Reply(r, 201, "") EXCEPT
                               !.header.digest = hash,
                               !.events = << NewTag(ri.repo, ri.image, manid[1]) >>,
                               !.sink = err]
          /\ UNCHANGED << upload, proc >>

\* what GetManifest reads: the blob of a digest, or the blob a tag names
ManifestRead(repo, image, manid) ==
  IF HasSha256Prefix(manid) THEN GetBlob(repo, image, manid)
  ELSE GetTag(repo, image, manid[1])

\* ManifestHandler.GetManifest: os.IsNotExist(errors.Unwrap(err)) is 404
GetManifest(r) ==
  LET ri == RepositoryAndImage(r)
  IN /\ resp' = IF ri.err # "nil" THEN ReplyErr(r, ErrInternal)
                ELSE IF ManifestRead(ri.repo, ri.image, last(r)).err = "not exist"
                     THEN ReplyErr(r, ErrUnknownManifest)
                ELSE IF ManifestRead(ri.repo, ri.image, last(r)).err # "nil"
                     THEN ReplyErr(r, ErrInternal)
                ELSE [Reply(r, 200, "") EXCEPT
                        !.header.length = ManifestRead(ri.repo, ri.image, last(r)).size,
                        !.data = ManifestRead(ri.repo, ri.image, last(r)).data]
     /\ UNCHANGED << upload, store, proc >>

\* Registry.ServeHTTP, one request from its first line to the response
ServeHTTP(r) ==
  LET op == Classify(r)
  IN CASE op = "Stat" -> Stat(r)
       [] op = "Get" -> Get(r)
       [] op = "UploadBlob" -> UploadBlob(r)
       [] op = "StartBlobUpload" -> StartBlobUpload(r)
       [] op = "GetManifest" -> GetManifest(r)
       [] op = "StoreManifest" -> StoreManifest(r)
       [] OTHER -> /\ resp' = Answer(r)
                   /\ UNCHANGED << upload, store, proc >>

\* ------------------------------------------------------------- clients
HttpImages == {"app", "web"}

\* "/v2/acme/<image>/..."
PathOf(image, rest) == << Lit("v2"), Lit("acme"), Lit(image) >> \o rest

\* the digests of the one-block contents
Digests == {Sha256(<< b >>) : b \in Blocks}

\* the requests of a client with a valid token: an upload start, chunks, commits
\* with a digest (right, wrong, of the directory of another image, or none), a
\* cancel, blob reads, manifest pushes and reads by tag and by digest, and the
\* push of another manifest under a tag
ClientRequests ==
  LET R(m, p, b, d) == [method |-> m, path |-> p, authorization |-> "Bearer token123",
                        body |-> b, digest |-> d]
      UploadPath(i, id) == PathOf(i, << Lit("blobs"), Lit("upload"), Lit("id"), id >>)
      First == Sha256(<< 1 >>)
  IN UNION {
       {R("POST", PathOf("app", << Lit("blobs"), Lit("uploads") >>), << >>, << >>)},
       {R("PATCH", UploadPath(i, Uuid(1)), << b >>, << >>) :
          i \in HttpImages, b \in Blocks},
       {R("PATCH", UploadPath("app", id), << 1 >>, << >>) : id \in {Lit("x"), << >>}},
       {R("PUT", UploadPath(i, Uuid(1)), << >>, d) :
          i \in HttpImages, d \in Digests \cup {<< >>}},
       {R("PUT", UploadPath(p[1], Uuid(1)), << >>, Traversal(p[2], First)) :
          p \in {q \in HttpImages \X HttpImages : q[1] # q[2]}},
       {R("DELETE", UploadPath("app", Uuid(1)), << >>, << >>)},
       {R(m, PathOf("app", << Lit("blobs"), d >>), << >>, << >>) :
          m \in {"GET", "HEAD"}, d \in Digests},
       {R("PUT", PathOf(i, << Lit("manifests"), ref >>), << 1 >>, << >>) :
          i \in HttpImages, ref \in {Lit("latest"), First}},
       {R("PUT", PathOf("app", << Lit("manifests"), Lit("latest") >>), << 2 >>, << >>)},
       {R("GET", PathOf(i, << Lit("manifests"), ref >>), << >>, << >>) :
          i \in HttpImages, ref \in {Lit("latest"), First}},
       {R(m, PathOf("app", << Lit("manifests"), Lit("latest") >>), << >>, << >>) :
          m \in {"HEAD", "DELETE"}},
       {R("GET", PathOf("app", << Lit("tags"), Lit("list") >>), << >>, << >>)},
       {R("GET", p, << >>, << >>) : p \in {<< Lit("v2") >>, << Lit("v2"), << >> >>}} }

\* the same with a token the Authorizer rejects, and the authentication
Requests ==
  ClientRequests
    \cup {[r EXCEPT !.authorization = "Bearer guess"] :
            r \in {c \in ClientRequests : c.method # "GET" \/ Len(c.path) = 1}}
    \cup {[method |-> "GET", path |-> << Lit("v2"), Lit("auth") >>,
           authorization |-> a, body |-> << >>, digest |-> << >>] :
            a \in {"Basic user:123", "Bearer guess"}}

\* the bound on the length of a temp file
Fits(r) ==
  (/\ Classify(r) = "UploadBlob"
   /\ r.method # "DELETE"
   /\ isValid(ParseUuid(last(r))) = "nil")
  => Pending(ParseUuid(last(r))) + Len(r.body) <= MaxFileLen

\* the requests by the operation they run
RequestsOf == [op \in {Classify(r) : r \in Requests} |-> {r \in Requests : Classify(r) = op}]

\* a client sends a request that runs op and waits for the response
Serves(op) ==
  \E r \in RequestsOf[op] :
    /\ Fits(r)
    /\ ServeHTTP(r)
    /\ UNCHANGED << hist, req, registry >>

\* ---------------------------------------------------------- dispatcher
Methods == {"GET", "HEAD", "PUT", "POST", "PATCH", "DELETE"}

Authorizations == {"Bearer token123", "Bearer guess", "Basic user:123"}

V2 == << Lit("v2"), Lit("acme"), Lit("app") >>

\* the paths a dispatcher run on its own is given
DispatchPaths ==
  { << Lit("v2") >>,
    << Lit("v2"), << >> >>,
    << Lit("v2"), Lit("auth") >>,
    << Lit("v2"), Lit("auth"), << >> >>,
    V2 \o << Lit("blobs"), Lit("uploads") >>,
    V2 \o << Lit("blobs"), Lit("uploads"), << >> >>,
    V2 \o << Lit("blobs"), Lit("upload"), Lit("id"), Uuid(1) >>,
    V2 \o << Lit("blobs"), Lit("upload"), Lit("id"), << >> >>,
    V2 \o << Lit("blobs"), Sha256(<< 1 >>) >>,
    V2 \o << Lit("manifests"), Lit("latest") >>,
    V2 \o << Lit("manifests"), Sha256(<< 1 >>) >>,
    << Lit("v2"), Lit("acme"), Lit("blobs"), Lit("manifests"), Lit("latest") >>,
    << Lit("v2"), Lit("acme"), Lit("manifests"), Lit("blobs"), Lit("uploads") >>,
    V2 \o << Lit("tags"), Lit("list") >>,
    V2 \o << Lit("blobs") >>,
    V2 \o << Lit("manifests") >> }

DispatchRequests ==
  { [method |-> m, path |-> p, authorization |-> t, body |-> << >>, digest |-> << >>] :
      m \in Methods, p \in DispatchPaths, t \in Authorizations }

\* a request arrives
Receive ==
  /\ req = NoReq
  /\ req' \in DispatchRequests
  /\ UNCHANGED << upload, store, proc, hist, resp, registry >>

\* Registry.ServeHTTP, up to the call of the handler it picks
Route ==
  /\ req # NoReq
  /\ resp' = Answer(req)
  /\ req' = NoReq
  /\ UNCHANGED << upload, store, proc, hist, registry >>

\* ------------------------------------------------------ specifications
\* the history of what client task p was acknowledged: a successful Append adds
\* its body to the blocks sent for its id; the history of a session is dropped
\* once the session is gone and no request for it is under way
Record(p) ==
  LET acked == IF /\ proc[p].pc \in {"open", "copy"}
                  /\ proc'[p].pc = "done"
                  /\ proc'[p].res = "ok"
               THEN [sent EXCEPT ![proc[p].id] = @ \o proc[p].data]
               ELSE sent
  IN sent' = [i \in Ids |->
               IF i \notin DOMAIN active' /\ (proc'[p].pc = "idle" \/ proc'[p].id # i)
               THEN << >> ELSE acked[i]]

\* the select statement of gc takes the tick: a sweep starts
SweepStarts == gcpc = "select" /\ tickPending /\ ~tickPending'

\* a new run of the process starts
RunStarts == gcpc = "done" /\ gcpc' = "select"

\* the history of the sessions: the ids this run started, the ids a sweep expired
History(p) ==
  /\ Record(p)
  /\ swept' = IF SweepStarts
              THEN swept \cup {id \in DOMAIN active : Expired(id)} ELSE swept
  /\ started' = IF RunStarts THEN {}
                ELSE IF nextId' # nextId THEN started \cup {nextId} ELSE started
  /\ UNCHANGED stored

\* the bodies of the concurrent requests: empty, or one block
SmallBodies == {b \in Bodies : Len(b) <= 1 /\ \A i \in DOMAIN b : b[i] = 1}

\* every request runs on a goroutine of its own (net/http) beside the sweeper:
\* NumProcs requests are under way at once
Next ==
  \/ \E ttl \in TTLs : Start(ttl) /\ UNCHANGED << hist, wire, registry >>
  \/ \E id \in ReqIds : Delete(id) /\ UNCHANGED << hist, wire, registry >>
  \/ \E p \in Procs, id \in ReqIds, data \in SmallBodies :
       AppendValidate(p, id, data) /\ UNCHANGED << hist, wire, registry >>
  \/ \E p \in Procs : AppendOpen(p) /\ UNCHANGED << hist, wire, registry >>
  \/ \E p \in Procs : AppendCopy(p) /\ UNCHANGED << hist, wire, registry >>
  \/ \E p \in Procs, id \in ReqIds : EndValidate(p, id) /\ UNCHANGED << hist, wire, registry >>
  \/ \E p \in Procs : EndOpen(p) /\ UNCHANGED << hist, wire, registry >>
  \/ \E p \in Procs : EndDelete(p) /\ UNCHANGED << hist, wire, registry >>
  \/ \E p \in Procs : HandleClose(p) /\ UNCHANGED << hist, wire, registry >>
  \/ \E p \in Procs : Return(p) /\ UNCHANGED << hist, wire, registry >>
  \/ GcCancelled /\ UNCHANGED << hist, wire, registry >>
  \/ GcCleanExpired /\ UNCHANGED << hist, wire, registry >>
  \/ GcCleanOrphans /\ UNCHANGED << hist, wire, registry >>
  \/ Tick /\ UNCHANGED << hist, wire, registry >>
  \/ Signal /\ UNCHANGED << hist, wire, registry >>

Spec == Init /\ [][Next]_vars

\* one client that sends its requests one after the other (task 1), beside the
\* sweeper and the cancels of other clients, across runs of the process
NextSeq ==
  \/ \E ttl \in TTLs : Start(ttl) /\ History(1) /\ UNCHANGED << wire, registry >>
  \/ \E id \in ReqIds : Delete(id) /\ History(1) /\ UNCHANGED << wire, registry >>
  \/ \E id \in ReqIds, data \in Bodies : AppendValidate(1, id, data) /\ History(1) /\ UNCHANGED << wire, registry >>
  \/ AppendOpen(1) /\ History(1) /\ UNCHANGED << wire, registry >>
  \/ AppendCopy(1) /\ History(1) /\ UNCHANGED << wire, registry >>
  \/ \E id \in ReqIds : EndValidate(1, id) /\ History(1) /\ UNCHANGED << wire, registry >>
  \/ EndOpen(1) /\ History(1) /\ UNCHANGED << wire, registry >>
  \/ EndDelete(1) /\ History(1) /\ UNCHANGED << wire, registry >>
  \/ HandleClose(1) /\ History(1) /\ UNCHANGED << wire, registry >>
  \/ Return(1) /\ History(1) /\ UNCHANGED << wire, registry >>
  \/ GcCancelled /\ History(1) /\ UNCHANGED << wire, registry >>
  \/ GcCleanExpired /\ History(1) /\ UNCHANGED << wire, registry >>
  \/ GcCleanOrphans /\ History(1) /\ UNCHANGED << wire, registry >>
  \/ Tick /\ History(1) /\ UNCHANGED << wire, registry >>
  \/ Signal /\ History(1) /\ UNCHANGED << wire, registry >>
  \/ Restart /\ History(1) /\ UNCHANGED << wire, registry >>

SpecSeq == Init /\ [][NextSeq]_vars

\* the sweeper goroutine's steps; the Go scheduler runs a goroutine that can run
SweeperStep ==
  (GcCancelled \/ GcCleanExpired \/ GcCleanOrphans) /\ History(1) /\ UNCHANGED << wire, registry >>

SpecSeqFair == SpecSeq /\ WF_vars(SweeperStep)

\* the history of the blobs: the bytes a blob had when the PutBlob that stored it
\* returned nil, for as long as a file is at its path
StoreHistory ==
  /\ UNCHANGED << sent, swept, started >>
  /\ LET put == {p \in Procs : /\ proc[p].pc = "pcopy"
                                /\ proc'[p].pc = "pdone"
                                /\ proc'[p].res = "ok"}
         rec == [f \in {proc[p].path : p \in put} |-> binodes'[storage'[f]]]
         all == rec @@ stored
     IN stored' = [f \in (DOMAIN all) \cap (DOMAIN storage') |-> all[f]]

\* the storage handler under one client that calls it again and again, across
\* runs of the process
NextStore ==
  \/ \E r \in Repos, i \in Images, h \in Hashes, c \in Bodies :
       PutOpen(1, r, i, h, c) /\ StoreHistory /\ UNCHANGED << wire, registry >>
  \/ PutCopy(1) /\ StoreHistory /\ UNCHANGED << wire, registry >>
  \/ PutVerify(1) /\ StoreHistory /\ UNCHANGED << wire, registry >>
  \/ PutReturn(1) /\ StoreHistory /\ UNCHANGED << wire, registry >>
  \/ \E r \in Repos, i \in Images, t \in Tags, h \in TagValues :
       PutTag(r, i, t, h) /\ StoreHistory /\ UNCHANGED << wire, registry >>
  \/ Signal /\ StoreHistory /\ UNCHANGED << wire, registry >>
  \/ GcCancelled /\ StoreHistory /\ UNCHANGED << wire, registry >>
  \/ Restart /\ StoreHistory /\ UNCHANGED << wire, registry >>

SpecStore == Init /\ [][NextStore]_vars

\* one client, one request at a time, through the server
NextHttp ==
  \/ Serves("redirectToAuth")
  \/ Serves("authenticate")
  \/ Serves("unauthorized")
  \/ Serves("Stat")
  \/ Serves("Get")
  \/ Serves("StartBlobUpload")
  \/ Serves("UploadBlob")
  \/ Serves("GetManifest")
  \/ Serves("StoreManifest")
  \/ Serves("unsupported")

SpecHttp == Init /\ [][NextHttp]_vars

\* a client that follows the upload protocol, one request after the other: it
\* starts sessions, sends chunks to the locations it knows of, commits with the
\* digest of all it was acknowledged plus the body of the commit, and asks for
\* the blobs of what it sent
UploadRequest(m, id, b, d) ==
  [method |-> m, path |-> UploadLocation("acme", "app", Uuid(id)),
   authorization |-> "Bearer token123", body |-> b, digest |-> d]

\* the history of the client: the locations it was given and, for each id, the
\* bytes of the requests that were answered 204 or 201
Remembers(r) ==
  /\ started' = IF resp'.status = 202 THEN started \cup {nextId} ELSE started
  /\ sent' = IF /\ Classify(r) = "UploadBlob"
               /\ r.method # "DELETE"
               /\ resp'.status \in {201, 204}
            THEN [sent EXCEPT ![ParseUuid(last(r))] = @ \o r.body]
            ELSE sent
  /\ UNCHANGED << swept, stored, req, registry >>

Posts ==
  LET r == [method |-> "POST", path |-> PathOf("app", << Lit("blobs"), Lit("uploads") >>),
            authorization |-> "Bearer token123", body |-> << >>, digest |-> << >>]
  IN ServeHTTP(r) /\ Remembers(r)

Patches ==
  \E id \in Ids, b \in Blocks :
    LET r == UploadRequest("PATCH", id, << b >>, << >>)
    IN Fits(r) /\ ServeHTTP(r) /\ Remembers(r)

Puts ==
  \E id \in Ids, body \in {<< >>} \cup {<< b >> : b \in Blocks} :
    LET r == UploadRequest("PUT", id, body, Sha256(sent[id] \o body))
    IN Fits(r) /\ ServeHTTP(r) /\ Remembers(r)

Heads ==
  \E id \in Ids :
    LET r == [method |-> "HEAD",
              path |-> PathOf("app", << Lit("blobs"), Sha256(sent[id]) >>),
              authorization |-> "Bearer token123", body |-> << >>, digest |-> << >>]
    IN ServeHTTP(r) /\ Remembers(r)

NextUpload ==
  \/ Posts
  \/ Patches
  \/ Puts
  \/ Heads

SpecUpload == Init /\ [][NextUpload]_vars

\* Registry.Start beside the sweeper it started, the signal, the clock and the
\* uploads clients start and cancel while the server listens
NextStart ==
  \/ \E ttl \in TTLs :
       registry.server = "listening" /\ Start(ttl) /\ UNCHANGED << hist, wire, registry >>
  \/ \E id \in ReqIds :
       registry.server = "listening" /\ Delete(id) /\ UNCHANGED << hist, wire, registry >>
  \/ GcCancelled /\ UNCHANGED << hist, wire, registry >>
  \/ GcCleanExpired /\ UNCHANGED << hist, wire, registry >>
  \/ GcCleanOrphans /\ UNCHANGED << hist, wire, registry >>
  \/ Tick /\ UNCHANGED << hist, wire, registry >>
  \/ Signal /\ UNCHANGED << hist, wire, registry >>
  \/ ShutdownBegins /\ UNCHANGED hist
  \/ ShutdownEnds /\ UNCHANGED hist
  \/ ListenFails /\ UNCHANGED hist
  \/ ServeReturnsClosed /\ UNCHANGED hist
  \/ WaitReturns /\ UNCHANGED hist

SpecStart == Init /\ [][NextStart]_vars

\* the goroutines of Start: the Go scheduler runs a goroutine that can run
GcRuns == (GcCancelled \/ GcCleanExpired \/ GcCleanOrphans) /\ UNCHANGED << hist, wire, registry >>

ShutdownRuns == (ShutdownBegins \/ ShutdownEnds) /\ UNCHANGED hist

StartRuns == (ServeReturnsClosed \/ WaitReturns) /\ UNCHANGED hist

SpecStartFair ==
  SpecStart /\ WF_vars(GcRuns) /\ WF_vars(ShutdownRuns) /\ WF_vars(StartRuns)

\* the dispatcher on its own: every method on every shape of path
NextDispatch ==
  \/ Receive
  \/ Route

SpecDispatch == Init /\ [][NextDispatch]_vars

\* ================================================================ claims
\* task p's End call returns a handle
Commits(p) == proc[p].pc = "edel" /\ proc'[p].pc = "handle"

\* C1: over all the End calls for one id, the concurrent ones included, at most
\* one returns a handle: no End call returns a handle for an id for which an End
\* call has returned one.
C1_OneCommit ==
  [][\A p \in Procs : Commits(p) => proc[p].id \notin committed]_vars

\* C2: for a client that sends its requests one after the other, the handle End
\* returns reads exactly the bodies of the Appends that succeeded, in call order;
\* once an End has returned a handle for an id, every Append and End for that id
\* is rejected with the invalid-upload condition.
C2_Lifecycle ==
  \A p \in Procs :
    /\ proc[p].pc = "handle" => ReadHandle(p) = sent[proc[p].id]
    /\ (proc[p].pc \in {"open", "copy", "eopen", "edel", "done"}
          /\ proc[p].id \in committed)
         => (proc[p].pc = "done" /\ proc[p].res = "invalid")

\* End has returned a handle that reads two different blocks in the order sent
C2_Witness ==
  /\ proc[1].pc = "handle"
  /\ sent[proc[1].id] = << 2, 1 >>
  /\ ReadHandle(1) = << 2, 1 >>

\* task p's Append or End call runs isValid
Validates(p) == proc[p].pc = "idle" /\ proc'[p].pc \in {"open", "eopen", "done"}

\* C3: an id passes validation exactly when it is well-formed, is in the active
\* set and the current time is before its expiry; at the expiry instant and
\* after it the id is rejected.
C3_ValidationRule ==
  [][\A p \in Procs :
       Validates(p) =>
         (proc'[p].pc \in {"open", "eopen"}
            <=> /\ proc'[p].id # BadId
                /\ proc'[p].id \in DOMAIN active
                /\ now < active[proc'[p].id])]_vars

\* C4: once a sweep is over, no id it removed as expired is in the active set
\* and no temp file of such an id is on disk.
C4_SweptStaysGone ==
  gcpc # "scan" => \A id \in swept : id \notin DOMAIN active /\ ~FileExists(id)

\* C5: as long as no cancellation signal was raised the sweeper goroutine is
\* there for the sessions that expire: while an expired id is in the active set
\* it waits for the next tick or it is sweeping.
C5_SweeperAlive ==
  (~ctxDone /\ \E id \in DOMAIN active : Expired(id)) => gcpc # "done"

\* the sweep that listed the directory releases the lock
SweepUnlocks == gcpc = "scan" /\ gcpc' # "scan"

\* C6: when a sweep whose directory listing succeeded releases the lock, every
\* file of the temp directory has a derived id that is in the active set.
C6_NoOrphanAtUnlock ==
  [][SweepUnlocks =>
       \A f \in DOMAIN tmpdir' : idForUploadFile(f) \in DOMAIN active']_vars

\* C7 as stated: once the cancellation signal has been raised no sweep starts.
C7_NoSweepAfterSignal == [][ctxDone => ~SweepStarts]_vars

\* C7, amended: once the cancellation signal has been raised the sweeper starts
\* at most one more sweep, and only when a tick waits as its select statement
\* runs; it never waits for a further tick, and it terminates.
C7_OneSweepAtMostThenExit ==
  /\ [][(ctxDone /\ (SweepStarts \/ gcpc = "scan")) => gcpc' # "select"]_vars
  /\ [][(ctxDone /\ gcpc = "select" /\ ~tickPending /\ gcpc' # "select")
         => (gcpc' = "done" /\ UNCHANGED << active, tmpdir >>)]_vars
  /\ (ctxDone ~> gcpc = "done")

\* the signal was raised, the sweeper has left the waiting tick and has exited
C7_Witness == ctxDone /\ tickPending /\ gcpc = "done"

GetPut(p) == GetBlob(proc[p].path[1], proc[p].path[2], proc[p].path[3])

StatPut(p) == StatBlob(proc[p].path[1], proc[p].path[2], proc[p].path[3])

\* task p's PutBlob compares the digests and returns
PutReturns(p) == proc[p].pc = "pcopy" /\ proc'[p].pc = "pdone"

\* C9: when PutBlob(repo, image, d, c) has returned for a content c whose SHA-256
\* is d, it has returned no error, Get of (repo, image, d) yields exactly c and
\* Stat reports the size len(c).
C9_PutThenGet ==
  \A p \in Procs :
    (proc[p].pc = "pdone" /\ HashMatches(proc[p].hash, proc[p].data)) =>
      /\ proc[p].res = "ok"
      /\ GetPut(p).err = "nil"
      /\ GetPut(p).data = proc[p].data
      /\ StatPut(p).size = Len(proc[p].data)

\* C10: a PutBlob whose content does not hash to the asserted digest returns the
\* hash-mismatch error, and when it returns no file is at the blob path: Stat of
\* (repo, image, d) reports that the blob does not exist.
C10_MismatchRollsBack ==
  [][\A p \in Procs :
       (PutReturns(p) /\ ~HashMatches(proc[p].hash, proc[p].data)) =>
         /\ proc'[p].res = "blob hash mismatch"
         /\ StatPut(p)'.err = "not exist"
         /\ GetPut(p)'.err = "not exist"]_vars

\* a PutBlob over a blob that was there has failed on the digest
C10_Witness ==
  \E p \in Procs :
    /\ proc[p].pc = "pdone"
    /\ proc[p].res = "blob hash mismatch"
    /\ Len(proc[p].data) = MaxBlocks
    /\ StatPut(p).err = "not exist"

\* C11: in every state, the states in which a PutBlob is under way included, what
\* Get can read at the path of a digest d hashes to d.
C11_VisibleHashesToDigest ==
  \A r \in Repos, i \in Images, h \in Hashes :
    GetBlob(r, i, h).err = "nil" => HashMatches(h, GetBlob(r, i, h).data)

\* C12: for as long as a file is at the path of a blob a PutBlob stored, it holds
\* the bytes it held when that PutBlob returned.
C12_StoredNeverChanges ==
  \A f \in DOMAIN stored : binodes[storage[f]] = stored[f]

\* C13: when PutTag(r, i, t, d) has returned for a digest d whose blob exists in
\* (r, i), GetTag(r, i, t) yields what Get(r, i, d) yields: the same bytes, the
\* same size.
C13_TagRoundTrip ==
  [][\A r \in Repos, i \in Images, t \in Tags, d \in TagValues :
       (PutTag(r, i, t, d) /\ GetBlob(r, i, d).err = "nil")
         => GetTag(r, i, t)' = GetBlob(r, i, d)']_vars

\* C14: when PutTag(r, i, t, d2) has returned, whatever value d1 the tag held
\* before, the tag file holds exactly d2.
C14_PutTagOverwrites ==
  [][\A r \in Repos, i \in Images, t \in Tags, d \in TagValues :
       PutTag(r, i, t, d) => TagValue(r, i, t)' = d]_vars

\* ---------------------------------------------------------------- C19
\* the operation families of the dispatcher
Family(op) ==
  IF op \in {"GetManifest", "StoreManifest"} THEN "manifest"
  ELSE IF op = "UploadBlob" THEN "upload chunk"
  ELSE IF op = "StartBlobUpload" THEN "upload start"
  ELSE IF op = "Stat" THEN "stat"
  ELSE IF op = "Get" THEN "fetch"
  ELSE op

\* the order as stated: manifests, upload id, upload start, blobs+HEAD, blobs+GET
StatedOrder(r) ==
  IF IsPing(r) THEN "redirectToAuth"
  ELSE IF IsAuth(r) THEN "authenticate"
  ELSE IF Authorize(r) # "nil" THEN "unauthorized"
  ELSE IF IsManifest(r) THEN "manifest"
  ELSE IF HasBlobUploadID(r) THEN "upload chunk"
  ELSE IF IsBlobUploadRequest(r) THEN "upload start"
  ELSE IF IsBlob(r) /\ r.method = "HEAD" THEN "stat"
  ELSE IF IsBlob(r) /\ r.method = "GET" THEN "fetch"
  ELSE "unsupported"

\* C19 as stated: every request is dispatched by the stated first-match order:
\* ping, authenticate, (authorized) manifests segment, upload-id segment
\* whatever the method, upload-start suffix, blobs+HEAD, blobs+GET, unsupported.
C19_StatedOrder ==
  [][Route =>
      (IF Handler(req) = "manfhdr" THEN "manifest" ELSE Family(resp'.op))
        = StatedOrder(req)]_vars

\* C19 amended: ping, authenticate, then (authorized) a path with a blobs
\* segment is a blob operation, decided by the method first (HEAD stat, GET
\* fetch), then by the upload-id segment (upload chunk), then by the
\* upload-start suffix, else unsupported; a path without a blobs segment and
\* with a manifests segment is a manifest operation; anything else is
\* unsupported.
C19_BlobsFirstMethodFirst ==
  [][Route =>
      LET r == req
          op == Family(resp'.op)
          blobs == ContainsSegments(r.path, << "blobs" >>)
          manifests == ContainsSegments(r.path, << "manifests" >>)
          open == ~IsPing(r) /\ ~IsAuth(r) /\ r.authorization = "Bearer token123"
      IN /\ IsPing(r) => op = "redirectToAuth"
         /\ ~IsPing(r) /\ IsAuth(r) => op = "authenticate"
         /\ ~IsPing(r) /\ ~IsAuth(r) /\ r.authorization # "Bearer token123" => op = "unauthorized"
         /\ open /\ blobs /\ r.method = "HEAD" => op = "stat"
         /\ open /\ blobs /\ r.method = "GET" => op = "fetch"
         /\ open /\ blobs /\ r.method \notin {"HEAD", "GET"} /\ HasBlobUploadID(r)
              => op = "upload chunk"
         /\ open /\ blobs /\ r.method \notin {"HEAD", "GET"} /\ ~HasBlobUploadID(r)
              => op = IF IsBlobUploadRequest(r) THEN "upload start" ELSE "unsupported"
         /\ open /\ ~blobs /\ manifests /\ r.method \in {"GET", "PUT"} => op = "manifest"
         /\ open /\ ~blobs /\ ~manifests => op = "unsupported"]_vars

\* a GET on a path with an upload id was served as a blob fetch
C19_Witness ==
  /\ resp.op = "Get"
  /\ HasBlobUploadID(resp.served)
  /\ resp.served.method = "GET"

\* ---------------------------------------------------------------- C20
\* C20: GET and HEAD on /v2/{repo}/{image}/manifests/{ref} are both served as
\* fetch-manifest; neither is answered with the unsupported-operation error.
C20_HeadFetchesManifest ==
  [][Route =>
      ((/\ req.method \in {"GET", "HEAD"}
        /\ req.authorization = "Bearer token123"
        /\ Len(req.path) = 5
        /\ req.path[4] = Lit("manifests")
        /\ ~IsBlob(req))
       => (resp'.op = "GetManifest" /\ resp'.code # "UNSUPPORTED"))]_vars

\* ---------------------------------------------------------------- C15
\* the tag of a request, when its reference is no digest
TagOf(r) == last(r)[1]

\* the tag file is there and names a blob that is not
Dangling(repo, image, tag) ==
  /\ TagPath(repo, image, tag) \in DOMAIN storage
  /\ BlobPath(repo, image, TagValue(repo, image, tag)) \notin DOMAIN storage

\* C15: GetTag fails with the same not-found condition when the tag file is
\* missing and when the tag names a digest whose blob is missing, and a manifest
\* GET by tag answers both with 404 MANIFEST_UNKNOWN.
C15_MissingAndDanglingAlike ==
  /\ \A i \in HttpImages, t \in Tags :
       (TagPath("acme", i, t) \notin DOMAIN storage \/ Dangling("acme", i, t))
         => GetTag("acme", i, t).err = "not exist"
  /\ LET r == resp.served
         ri == RepositoryAndImage(r)
     IN (/\ resp.op = "GetManifest"
         /\ ~HasSha256Prefix(last(r))
         /\ \/ TagPath(ri.repo, ri.image, TagOf(r)) \notin DOMAIN storage
            \/ Dangling(ri.repo, ri.image, TagOf(r)))
        => resp.status = 404 /\ resp.code = "MANIFEST_UNKNOWN"

\* a manifest GET by a tag whose blob is gone was answered
C15_Witness ==
  /\ resp.op = "GetManifest"
  /\ ~HasSha256Prefix(last(resp.served))
  /\ Dangling("acme", RepositoryAndImage(resp.served).image, TagOf(resp.served))
  /\ resp.status = 404

\* ---------------------------------------------------------------- C16
\* C16: in every state reached by HTTP requests, every tag of a namespace names
\* a digest whose blob exists in the same namespace.
C16_TagsResolve ==
  \A i \in HttpImages, t \in Tags : ~Dangling("acme", i, t)

\* ---------------------------------------------------------------- C17
\* the files of the images other than image
Others(dir, ino, image) ==
  [f \in {g \in DOMAIN dir : g[2] # image} |-> ino[dir[f]]]

\* C17: a commit or a manifest push addressed to (repo, image) creates, modifies
\* or deletes only files of (repo, image); the blobs and tags of every other
\* image are unchanged.
C17_OtherNamespacesUntouched ==
  [][LET r == resp'.served
     IN (ServeHTTP(r) /\ RepositoryAndImage(r).err = "nil")
          => Others(storage', binodes', RepositoryAndImage(r).image)
               = Others(storage, binodes, RepositoryAndImage(r).image)]_vars

\* ---------------------------------------------------------------- C18
\* C18: a request that is neither the ping nor the authentication and whose
\* authorization fails is answered 401 UNAUTHORIZED, and the active uploads,
\* the temp directory, the blobs and the tags are unchanged.
C18_UnauthorizedChangesNothing ==
  [][LET r == resp'.served
     IN (ServeHTTP(r) /\ ~IsPing(r) /\ ~IsAuth(r) /\ Authorize(r) # "nil")
          => /\ resp'.status = 401
             /\ resp'.code = "UNAUTHORIZED"
             /\ UNCHANGED << active, nextId, tmpdir, inodes, storage, binodes >>]_vars

\* a push without a valid token was refused while uploads and blobs were there
C18_Witness ==
  /\ resp.op = "unauthorized"
  /\ resp.status = 401
  /\ resp.served.method = "PUT"
  /\ active # << >>
  /\ tmpdir # << >>
  /\ storage # << >>

\* ---------------------------------------------------------------- C27
\* C27: validation and the opening of the backing file are one step under the
\* lock: when Append opens (and so creates) the temp file of an id, the id is
\* still in the active set, so no temp file appears for an id a Cancel or a
\* Sweep has removed.
C27_OpenOnlyWhileActive ==
  [][\A p \in Procs : AppendOpen(p) => proc[p].id \in DOMAIN active]_vars

\* ---------------------------------------------------------------- C28
\* C28: while the handle a successful Commit returned is open, the temp file
\* of its id is on disk, whatever Sweep or Cancel runs in between.
C28_FileStaysUntilClose ==
  \A p \in Procs :
    proc[p].pc = "handle" => tmpFileForUpload(proc[p].id) \in DOMAIN tmpdir

\* ---------------------------------------------------------------- C29
\* C29: no step of a sweep removes from the active set, or deletes the temp
\* file of, an id that is active and whose expiry has not yet passed.
C29_SweepSparesLiveUploads ==
  [][(SweepStarts \/ SweepUnlocks) =>
       \A id \in DOMAIN active :
         now < active[id] =>
           /\ id \in DOMAIN active'
           /\ active'[id] = active[id]
           /\ FileExists(id) =>
                /\ tmpFileForUpload(id) \in DOMAIN tmpdir'
                /\ tmpdir'[tmpFileForUpload(id)] = tmpdir[tmpFileForUpload(id)]
                /\ inodes'[tmpdir'[tmpFileForUpload(id)]] = FileContent(id)]_vars

\* a sweep that removed an expired id holds the lock and has listed the file of
\* an id that is active and not expired
C29_Witness ==
  /\ gcpc = "scan"
  /\ swept # {}
  /\ \E id \in DOMAIN active :
       /\ now < active[id]
       /\ tmpFileForUpload(id) \in listing
       /\ FileExists(id)

\* ---------------------------------------------------------------- C30
\* isValid has rejected the id of task p's Append or End call
Rejected(p) ==
  proc[p].pc = "idle" /\ proc'[p].pc = "done" /\ proc'[p].res = "invalid"

\* task p's Append call takes a step: validation passed, the open, a write
Appends(p) ==
  \/ proc[p].pc = "idle" /\ proc'[p].pc = "open"
  \/ proc[p].pc \in {"open", "copy"} /\ proc'[p] # proc[p] /\ proc'[p].pc # "idle"

\* C30: an Append or Commit rejected as invalid-upload creates and modifies no
\* temp file and leaves the active set and every expiry unchanged; no step of
\* an accepted Append changes the expiry of any session.
C30_RejectionChangesNothing ==
  [][\A p \in Procs :
       /\ Rejected(p) => UNCHANGED << active, tmpdir, inodes, nextId >>
       /\ Appends(p) => UNCHANGED active]_vars

\* an Append or Commit on a well-formed id was rejected while a session with
\* a temp file was active
C30_Witness ==
  /\ proc[1].pc = "done"
  /\ proc[1].res = "invalid"
  /\ proc[1].id \in Ids
  /\ \E id \in DOMAIN active : FileExists(id)

\* ---------------------------------------------------------------- C26
\* C26: Registry.Start returns only once the sweeper has exited; after the stop
\* signal it eventually returns; and it returns no error when the server was
\* closed by the shutdown.
C26_StartJoinsSweeper ==
  /\ [](registry.start = "returned" => gcpc = "done")
  /\ [](registry.start = "returned" /\ registry.err = "ErrServerClosed"
          => registry.result = "nil")
  /\ (ctxDone ~> registry.start = "returned")

\* after the signal Start has returned nil, the server closed by the shutdown
\* and the sweeper gone
C26_Witness ==
  /\ ctxDone
  /\ registry.start = "returned"
  /\ registry.server = "closed"
  /\ registry.result = "nil"
  /\ gcpc = "done"

\* ---------------------------------------------------------------- C25
\* C25: every non-2xx response, the unauthorized answer to a ping included,
\* carries the JSON error body whose code goes with the status: UNAUTHORIZED
\* with 401, BLOB_UNKNOWN or MANIFEST_UNKNOWN with 404, UNSUPPORTED with 405,
\* INTERNAL_SERVER_ERROR with 500.
C25_ErrorBodyOnEveryFailure ==
  (resp.status # 0 /\ resp.status \notin 200..299)
    => [status |-> resp.status, code |-> resp.code]
         \in {ErrUnauthorized, ErrUnknownBlob, ErrUnknownManifest, ErrUnsupported,
              ErrInternal}

\* ---------------------------------------------------------------- C24
\* C24: after every successful chunk append of a session, the upper bound of
\* the range header of the response is the number of bytes stored for that id
\* so far, over all its appends.
C24_RangeIsSessionOffset ==
  [][LET r == resp'.served
     IN (/\ ServeHTTP(r)
         /\ resp'.op = "UploadBlob"
         /\ r.method = "PATCH"
         /\ resp'.status = 204)
          => resp'.header.range
               = Len(inodes'[tmpdir'[tmpFileForUpload(ParseUuid(last(r)))]])]_vars

\* ---------------------------------------------------------------- C22
\* C22: every successful manifest PUT, by tag or by digest, answers 201 with
\* the docker-content-digest header set to the digest computed from the body,
\* and a GET of the same reference that follows reads the same bytes.
C22_PutAnswersDigestAndReadsBack ==
  LET r == resp.served
      ri == RepositoryAndImage(r)
  IN (resp.op = "StoreManifest" /\ resp.status \in 200..299)
       => /\ resp.status = 201
          /\ resp.header.digest = Sha256(r.body)
          /\ ManifestRead(ri.repo, ri.image, last(r)).err = "nil"
          /\ ManifestRead(ri.repo, ri.image, last(r)).data = r.body

\* ---------------------------------------------------------------- C21
\* the tag files and what they hold
TagFiles(dir, ino) ==
  [f \in {g \in DOMAIN dir : Len(g) = 4 /\ g[3] = "tags"} |-> ino[dir[f]]]

\* C21: on a successful manifest PUT the blob is stored under the digest
\* computed from the body; a reference that starts with "sha256:" writes no tag
\* and notifies nobody; any other reference writes the tag it names, and only
\* that tag, with the computed digest, and the event handler is called once
\* with (repo, image, tag).
C21_PushStoresTagsAndNotifies ==
  [][LET r == resp'.served
         ri == RepositoryAndImage(r)
         hash == Sha256(r.body)
         blob == BlobPath(ri.repo, ri.image, hash)
         tagfile == TagPath(ri.repo, ri.image, TagOf(r))
     IN (ServeHTTP(r) /\ resp'.op = "StoreManifest" /\ resp'.status = 201)
          => /\ blob \in DOMAIN storage'
             /\ binodes'[storage'[blob]] = r.body
             /\ IF HasSha256Prefix(last(r))
                THEN /\ TagFiles(storage', binodes') = TagFiles(storage, binodes)
                     /\ resp'.events = << >>
                ELSE /\ TagFiles(storage', binodes')
                          = (tagfile :> hash) @@ TagFiles(storage, binodes)
                     /\ resp'.events = << << ri.repo, ri.image, TagOf(r) >> >>]_vars

\* the tag of an image was moved from one manifest to another, the event
\* handler was told, and a push by digest of the other image left no tag
C21_Witness ==
  /\ resp.op = "StoreManifest"
  /\ resp.status = 201
  /\ resp.served.body = << 2 >>
  /\ resp.events = << << "acme", "app", "latest" >> >>
  /\ TagValue("acme", "app", "latest") = Sha256(<< 2 >>)
  /\ BlobPath("acme", "app", Sha256(<< 1 >>)) \in DOMAIN storage
  /\ BlobPath("acme", "web", Sha256(<< 1 >>)) \in DOMAIN storage
  /\ TagPath("acme", "web", "latest") \notin DOMAIN storage

\* ---------------------------------------------------------------- C23
\* the session of id was started and not committed
Open(id) == id \in started \ committed

\* C23: a POST to the upload-start path answers 202 with a location that holds
\* a fresh id; every PATCH to the location of an open session answers 204; a
\* PUT to it with the digest of all the bytes sent, the chunks in order and then
\* the body of the PUT, answers 201, stores a blob of that many bytes and ends
\* the session; a HEAD on the blob of a committed session answers 200 with
\* content-length the number of bytes sent; and a committed id is refused.
C23_UploadSequence ==
  [][LET r == resp'.served
         id == ParseUuid(last(r))
         all == sent[id] \o r.body
     IN /\ Posts =>
             /\ resp'.status = 202
             /\ \E k \in Ids \ (started \cup DOMAIN active \cup committed) :
                  /\ resp'.header.location = UploadLocation("acme", "app", Uuid(k))
                  /\ k \in DOMAIN active'
        /\ (Patches /\ r.method = "PATCH" /\ Open(id)) =>
             /\ resp'.status = 204
             /\ resp'.header.location = r.path
        /\ (Puts /\ r.method = "PUT" /\ Open(id)) =>
             /\ resp'.status = 201
             /\ BlobPath("acme", "app", Sha256(all)) \in DOMAIN storage'
             /\ binodes'[storage'[BlobPath("acme", "app", Sha256(all))]] = all
             /\ id \notin DOMAIN active'
        /\ (Heads /\ r.method = "HEAD") =>
             \A k \in committed :
               last(r) = Sha256(sent[k])
                 => /\ resp'.status = 200
                    /\ resp'.header.length = Len(sent[k])
        /\ ((Patches \/ Puts) /\ r.method \in {"PATCH", "PUT"} /\ id \in committed) =>
             resp'.status \notin 200..299]_vars

\* two chunks and a commit later, the HEAD on the blob of the session answered
\* with the length of all that was sent
C23_Witness ==
  /\ 1 \in committed
  /\ sent[1] = << 1, 2 >>
  /\ resp.op = "Stat"
  /\ last(resp.served) = Sha256(<< 1, 2 >>)
  /\ resp.status = 200
  /\ resp.header.length = 2

\* ---------------------------------------------------------------- C31
\* what the temp file of id holds once the body of r is appended to it
Uploaded(r) ==
  LET id == ParseUuid(last(r))
      a == AppendTo(tmpdir, inodes, id, r.body)
  IN a.inodes[a.tmpdir[tmpFileForUpload(id)]]

\* C31: a final upload request to a valid session whose asserted digest is not
\* the digest of the uploaded content is answered with the 500 internal error
\* and never 201; afterwards no blob is there under the asserted digest, the id
\* is gone from the active set and the temp file is deleted. Every step of the
\* specification serves the request its response names.
C31_MismatchFailsAndConsumes ==
  [][LET r == resp'.served
         id == ParseUuid(last(r))
         ri == RepositoryAndImage(r)
     IN (/\ resp'.op = "UploadBlob"
         /\ r.method = "PUT"
         /\ isValid(id) = "nil"
         /\ r.digest # Sha256(Uploaded(r)))
          => /\ resp'.status = 500
             /\ resp'.code = "INTERNAL_SERVER_ERROR"
             /\ BlobPath(ri.repo, ri.image, r.digest) \notin DOMAIN storage'
             /\ id \notin DOMAIN active'
             /\ tmpFileForUpload(id) \notin DOMAIN tmpdir']_vars

\* a commit that asserted the digest of other content was refused after its
\* Append, and the session is gone
C31_Witness ==
  /\ resp.op = "UploadBlob"
  /\ resp.served.method = "PUT"
  /\ resp.served.digest \in Digests
  /\ resp.header.location = resp.served.path
  /\ resp.status = 500
  /\ ParseUuid(last(resp.served)) \in committed
  /\ ParseUuid(last(resp.served)) \notin DOMAIN active

\* ---------------------------------------------------------------- C33
\* C33: a final upload request to a valid session without a digest fails with
\* the internal error only after the body was appended and the session ended:
\* the response carries the range of the Append, the id is gone from the active
\* set (a retry with a digest is refused), the temp file is deleted and the
\* storage holds what it held. Every step of the specification serves the
\* request its response names.
C33_NoDigestLosesUpload ==
  [][LET r == resp'.served
         id == ParseUuid(last(r))
     IN (/\ resp'.op = "UploadBlob"
         /\ r.method \notin {"PATCH", "DELETE"}
         /\ isValid(id) = "nil"
         /\ r.digest = << >>)
          => /\ resp'.status = 500
             /\ resp'.code = "INTERNAL_SERVER_ERROR"
             /\ resp'.header.range = Len(r.body)
             /\ id \notin DOMAIN active'
             /\ tmpFileForUpload(id) \notin DOMAIN tmpdir'
             /\ UNCHANGED << storage, binodes >>]_vars

\* a commit without a digest was refused after its Append: the session and its
\* file are gone and nothing is stored
C33_Witness ==
  /\ resp.op = "UploadBlob"
  /\ resp.served.method = "PUT"
  /\ resp.served.digest = << >>
  /\ resp.header.location = resp.served.path
  /\ resp.status = 500
  /\ ParseUuid(last(resp.served)) \in committed
  /\ tmpdir = << >>
  /\ storage = << >>

\* ---------------------------------------------------------------- C32
\* C32: when the event handler fails during a manifest push by tag, the request
\* is answered with the 500 internal error and not 201, and the blob and the
\* tag written before the call stay: a GET of the tag that follows reads the
\* manifest that was pushed.
C32_FailedEventKeepsTag ==
  LET r == resp.served
      ri == RepositoryAndImage(r)
  IN (resp.op = "StoreManifest" /\ resp.sink = "error")
       => /\ resp.status = 500
          /\ resp.code = "INTERNAL_SERVER_ERROR"
          /\ GetBlob(ri.repo, ri.image, Sha256(r.body)).err = "nil"
          /\ GetTag(ri.repo, ri.image, TagOf(r)).err = "nil"
          /\ TagValue(ri.repo, ri.image, TagOf(r)) = Sha256(r.body)
          /\ GetTag(ri.repo, ri.image, TagOf(r)).data = r.body

\* the push that moved the tag to another manifest was answered 500 because the
\* event handler failed, and the tag names the new manifest
C32_Witness ==
  /\ resp.op = "StoreManifest"
  /\ resp.sink = "error"
  /\ resp.status = 500
  /\ resp.served.body = << 2 >>
  /\ resp.events = << << "acme", "app", "latest" >> >>
  /\ BlobPath("acme", "app", Sha256(<< 1 >>)) \in DOMAIN storage
  /\ TagValue("acme", "app", "latest") = Sha256(<< 2 >>)

\* ---------------------------------------------------------------- C34
\* End of task p, past isValid, finds no file to open
OpensNothing(p) ==
  /\ proc[p].pc = "eopen"
  /\ ~FileExists(proc[p].id)
  /\ proc'[p].pc = "done"

\* C34: End on a session to which nothing was appended fails with the error of
\* os.Open and takes nothing from the session: the active set and every
\* deadline are what they were, no file appears, and an id that was valid is
\* still valid, so that an Append and an End that follow can succeed.
C34_EndWithoutFileKeepsSession ==
  [][\A p \in Procs :
       OpensNothing(p)
         => /\ proc'[p].res = "noent"
            /\ proc'[p].id = proc[p].id
            /\ UNCHANGED << active, tmpdir, inodes, committed >>
            /\ (isValid(proc[p].id) = "nil" => isValid(proc[p].id)' = "nil")]_vars

\* End has failed for want of a file on a session that is active, not expired
\* and was never appended to
C34_Witness ==
  /\ proc[1].pc = "done"
  /\ proc[1].res = "noent"
  /\ proc[1].id \in DOMAIN active
  /\ isValid(proc[1].id) = "nil"
  /\ ~FileExists(proc[1].id)
  /\ sent[proc[1].id] = << >>

\* ---------------------------------------------------------------- C35
\* C35: the sweeper and isValid agree on expiry at every instant, the instant
\* of the deadline included: a sweep removes an id from the active set only if,
\* at that instant, isValid rejects the id as expired.
C35_SweepOnlyWhatValidationRejects ==
  [][SweepStarts =>
       \A id \in DOMAIN active :
         id \notin DOMAIN active' => isValid(id) = "upload id expired"]_vars

====
